---- MODULE Spec2Model ----
(***************************************************************************)
(* A model of the SudokuSolver program: the 81-cell board with its row,    *)
(* column and tile views, the candidate ("entropy") calculation, the       *)
(* least-entropy selector, the solver loop with its backtracking, the      *)
(* validator, the board generator and the cell removal.                    *)
(*                                                                         *)
(* A board string is a sequence of characters; a character is modelled by  *)
(* its code ('0' is 48, ..., '9' is 57).  A Vec collected from a HashSet   *)
(* has no specified order: wherever the program iterates one, the model    *)
(* takes every order.                                                      *)
(***************************************************************************)
EXTENDS Integers, Sequences, FiniteSets

VARIABLES
    board_string,          \* main: initial_board_string (sequence of character codes)
    cells,                 \* Board.cells, a function 0..80 -> 0..9
    previous_moves,        \* solve_board: the stack of BoardMove
    least_entropy_result,  \* solve_board: the selector result the loop acts on
    pc,                    \* where the program stands
    backtracked,           \* observation only: solve_board has called backtrack
    report,                \* what validate_board printed
    entropy_call,          \* the results of calculate_entropy_at_cell, by (row, col)
    gen,                   \* generate_board: its locals
    removal,               \* remove_board_cells: its arguments, locals and return value
    before_move,           \* observation only: for each Move on the stack, the grid
                           \* as it was just before the Move's cell was written
    last_branch            \* observation only: the branch the last loop iteration took

vars == << board_string, cells, previous_moves, least_entropy_result, pc, backtracked,
           report, entropy_call, gen, removal, before_move, last_branch >>

-----------------------------------------------------------------------------
(* Bounds of the model *)

\* The solver is started on the first NumPuzzles puzzles of PuzzleList.
NumPuzzles == 9

\* The board functions are called on the base grids with at most MaxEdits cells
\* among EditCells overwritten.
MaxEdits == 2

\* generate_board draws its base row among the first NumBaseRows rows of
\* BaseRowList and its digit relabeling among the first NumRelabelings of
\* RelabelingList (every shuffle of three indices is drawn in full).
NumBaseRows == 2
NumRelabelings == 2

\* remove_board_cells draws each index to clear among the DrawWidth lowest
\* indices that still hold a digit.
DrawWidth == 2

-----------------------------------------------------------------------------
(* Characters and strings *)

\* u8::to_string on a digit: the character of the digit.
CharOf(d) == 48 + d

\* char.to_string().parse::<u8>() on a digit character.
ParseU8(ch) == ch - 48

\* The string whose characters are the given digits.
StringOf(digits) == [k \in 1..Len(digits) |-> CharOf(digits[k])]

-----------------------------------------------------------------------------
(* Option values *)

NoneEntropy == [some |-> FALSE, options |-> {}]
SomeEntropy(s) == [some |-> TRUE, options |-> s]

NoneLeast == [some |-> FALSE, pos |-> << 10, 10 >>, entropy |-> {}]
SomeLeast(p, e) == [some |-> TRUE, pos |-> p, entropy |-> e]

-----------------------------------------------------------------------------
(* Board *)

\* Board::new: one cell per character of the string, in order.
Board_new(string_representation) ==
    [i \in 0..80 |-> ParseU8(string_representation[i + 1])]

\* self.cells.iter().enumerate(): the indices in order.
CellIndices == [k \in 1..81 |-> k - 1]

RowIndices == [row \in 0..8 |-> SelectSeq(CellIndices, LAMBDA i : i \div 9 = row)]

ColumnIndices == [column \in 0..8 |-> SelectSeq(CellIndices, LAMBDA i : i % 9 = column)]

TileIndices ==
    [tile \in (0..2) \X (0..2) |->
        SelectSeq(CellIndices,
                  LAMBDA i : (i \div 27) = tile[1] /\ ((i % 9) \div 3) = tile[2])]

\* get_row: the cells whose index i has i / 9 == row, in order.
get_row(b, row) == [k \in 1..Len(RowIndices[row]) |-> b[RowIndices[row][k]]]

\* get_column: the cells whose index i has i % 9 == column, in order.
get_column(b, column) ==
    [k \in 1..Len(ColumnIndices[column]) |-> b[ColumnIndices[column][k]]]

\* get_tile: the cells whose index i has i / 27 == tile.0 and (i % 9) / 3 == tile.1.
get_tile(b, tile) == [k \in 1..Len(TileIndices[tile]) |-> b[TileIndices[tile][k]]]

\* into_iter().collect::<HashSet<u8>>()
HashSetOf(seq) == {seq[k] : k \in 1..Len(seq)}

\* Mutant of calculate_entropy_at_cell: the tile of the cell is not consulted.
calculate_entropy_at_cell_NoTile(b, row, col) ==
    LET current_index == row * 9 + col
        possible_options == 0..9
        current_row_set == HashSetOf(get_row(b, row))
        current_column_set == HashSetOf(get_column(b, col))
    IN  IF b[current_index] # 0
        THEN NoneEntropy
        ELSE SomeEntropy((possible_options \ current_row_set) \ current_column_set)

\* Mutant of calculate_entropy_at_cell: a filled cell is not answered with None.
calculate_entropy_at_cell_NoFilledCheck(b, row, col) ==
    LET possible_options == 0..9
        current_row_set == HashSetOf(get_row(b, row))
        current_column_set == HashSetOf(get_column(b, col))
        current_tile_set == HashSetOf(get_tile(b, << row \div 3, col \div 3 >>))
    IN  SomeEntropy(((possible_options \ current_row_set)
                        \ current_column_set) \ current_tile_set)

\* calculate_entropy_at_cell
calculate_entropy_at_cell(b, row, col) ==
    LET current_index == row * 9 + col
        possible_options == 0..9
        current_row_set == HashSetOf(get_row(b, row))
        current_column_set == HashSetOf(get_column(b, col))
        current_tile_set == HashSetOf(get_tile(b, << row \div 3, col \div 3 >>))
    IN  IF b[current_index] # 0
        THEN NoneEntropy
        ELSE SomeEntropy(((possible_options \ current_row_set)
                              \ current_column_set) \ current_tile_set)

\* find_least_entropy, lines 243-244: min_pos and min_entropy before the loops.
LeastEntropyStart == [min_pos |-> << 10, 10 >>, min_entropy |-> 0..9]

\* find_least_entropy, lines 245-247: current_entropy at each (row, col); the
\* loops visit the cells in the order of index.
CurrentEntropies(b) ==
    {[min_pos |-> << row, col >>, index |-> row * 9 + col,
      current_entropy |-> calculate_entropy_at_cell(b, row, col)] :
        row \in 0..8, col \in 0..8}

\* Mutant of LeastEntropyAssignments: a set of the same length as min_entropy
\* is assigned too.
LeastEntropyAssignments_TiesReplace(b) ==
    UNION {{v \in visits :
               /\ v.current_entropy.some
               /\ Cardinality(v.current_entropy.options)
                      <= Cardinality(LeastEntropyStart.min_entropy)
               /\ \A earlier \in visits :
                      (earlier.index < v.index /\ earlier.current_entropy.some) =>
                          Cardinality(v.current_entropy.options)
                              <= Cardinality(earlier.current_entropy.options)} :
           visits \in {CurrentEntropies(b)}}

\* find_least_entropy, lines 248-253: the visits that assign min_entropy and
\* min_pos. min_entropy is the start's or that of an earlier Some, and only ever
\* gets shorter, so the test entropy.len() < min_entropy.len() succeeds exactly
\* when the set is shorter than the start's and than every earlier Some.
\* The entropies are bound once, as one pass of the loops computes them once.
LeastEntropyAssignments(b) ==
    UNION {{v \in visits :
               /\ v.current_entropy.some
               /\ Cardinality(v.current_entropy.options)
                      < Cardinality(LeastEntropyStart.min_entropy)
               /\ \A earlier \in visits :
                      (earlier.index < v.index /\ earlier.current_entropy.some) =>
                          Cardinality(v.current_entropy.options)
                              < Cardinality(earlier.current_entropy.options)} :
           visits \in {CurrentEntropies(b)}}

\* find_least_entropy, lines 243-255: min_pos and min_entropy after the loops:
\* those of the last assignment, or the start's.
LeastEntropyScan(b) ==
    CHOOSE scan \in
        {IF assignments = {}
         THEN LeastEntropyStart
         ELSE LET last == CHOOSE v \in assignments :
                              \A w \in assignments : w.index <= v.index
              IN  [min_pos |-> last.min_pos, min_entropy |-> last.current_entropy.options] :
            assignments \in {LeastEntropyAssignments(b)}} : TRUE

\* Mutant of find_least_entropy: a selected cell without candidates is answered
\* with None.
find_least_entropy_StuckIsNone(b) ==
    CHOOSE result \in
        {IF scan.min_pos = << 10, 10 >> \/ scan.min_entropy = {}
         THEN NoneLeast
         ELSE SomeLeast(scan.min_pos, scan.min_entropy) :
            scan \in {LeastEntropyScan(b)}} : TRUE

\* find_least_entropy
find_least_entropy(b) ==
    CHOOSE result \in
        {IF scan.min_pos = << 10, 10 >>
         THEN NoneLeast
         ELSE SomeLeast(scan.min_pos, scan.min_entropy) :
            scan \in {LeastEntropyScan(b)}} : TRUE

\* validate_board: "valid" for "The board is valid!", "invalid" for "The solution is invalid!".
validate_board(b) ==
    IF \E i \in 0..2, j \in 0..2 :
          LET tile == get_tile(b, << i, j >>)
              row == get_row(b, i)
              column == get_column(b, i)
          IN  \/ Len(tile) # Cardinality(HashSetOf(tile))
              \/ Len(row) # Cardinality(HashSetOf(row))
              \/ Len(column) # Cardinality(HashSetOf(column))
    THEN "invalid"
    ELSE "valid"

-----------------------------------------------------------------------------
(* The puzzles the solver is started on, as digits; StringOf makes the strings. *)

\* the puzzle of main.rs line 16
Classic ==
    << 5, 3, 0, 0, 7, 0, 0, 0, 0,
       6, 0, 0, 1, 9, 5, 0, 0, 0,
       0, 9, 8, 0, 0, 0, 0, 6, 0,
       8, 0, 0, 0, 6, 0, 0, 0, 3,
       4, 0, 0, 8, 0, 3, 0, 0, 1,
       7, 0, 0, 0, 2, 0, 0, 0, 6,
       0, 6, 0, 0, 0, 0, 2, 8, 0,
       0, 0, 0, 4, 1, 9, 0, 0, 5,
       0, 0, 0, 0, 8, 0, 0, 7, 9 >>

\* the completed grid of Classic
Solved ==
    << 5, 3, 4, 6, 7, 8, 9, 1, 2,
       6, 7, 2, 1, 9, 5, 3, 4, 8,
       1, 9, 8, 3, 4, 2, 5, 6, 7,
       8, 5, 9, 7, 6, 1, 4, 2, 3,
       4, 2, 6, 8, 5, 3, 7, 9, 1,
       7, 1, 3, 9, 2, 4, 8, 5, 6,
       9, 6, 1, 5, 3, 7, 2, 8, 4,
       2, 8, 7, 4, 1, 9, 6, 3, 5,
       3, 4, 5, 2, 8, 6, 1, 7, 9 >>

\* Solved with 23 cells cleared: one cell is chosen among two candidates
TwoWay ==
    << 5, 3, 4, 6, 7, 0, 9, 1, 2,
       0, 0, 2, 1, 9, 5, 0, 0, 8,
       1, 9, 8, 3, 4, 2, 5, 6, 0,
       0, 5, 9, 7, 6, 1, 4, 2, 3,
       0, 2, 6, 8, 5, 0, 7, 9, 1,
       7, 1, 0, 0, 2, 4, 8, 5, 6,
       9, 6, 1, 0, 3, 0, 2, 8, 0,
       2, 0, 7, 0, 1, 9, 6, 3, 0,
       3, 4, 0, 2, 8, 6, 0, 0, 0 >>

\* Solved with cells cleared: a contradiction, one backtrack, then success
Retry ==
    << 0, 3, 4, 0, 0, 0, 9, 1, 0,
       6, 0, 2, 1, 9, 0, 3, 4, 8,
       1, 0, 8, 3, 4, 2, 5, 6, 7,
       8, 5, 0, 7, 0, 0, 0, 0, 0,
       4, 2, 0, 0, 0, 0, 7, 9, 0,
       7, 1, 0, 0, 0, 4, 8, 0, 0,
       0, 6, 1, 5, 3, 0, 2, 0, 0,
       0, 8, 0, 4, 1, 9, 0, 3, 5,
       0, 0, 5, 0, 8, 0, 1, 0, 0 >>

\* Solved with cells cleared: choices, contradictions and backtracking
Cycling ==
    << 0, 0, 4, 6, 0, 0, 0, 1, 2,
       6, 0, 0, 0, 9, 0, 3, 4, 0,
       1, 0, 0, 0, 4, 0, 0, 0, 0,
       8, 0, 9, 7, 0, 0, 4, 0, 3,
       0, 0, 0, 0, 5, 3, 0, 0, 1,
       7, 1, 0, 0, 2, 0, 8, 0, 6,
       9, 6, 1, 5, 0, 7, 2, 8, 4,
       0, 8, 7, 0, 1, 9, 6, 3, 5,
       0, 0, 5, 0, 8, 6, 0, 7, 0 >>

\* a grid with a duplicated hint: a contradiction before any choice
Stuck ==
    << 5, 3, 0, 6, 7, 8, 9, 1, 2,
       6, 7, 2, 0, 9, 5, 0, 4, 8,
       1, 9, 8, 3, 4, 2, 5, 6, 7,
       8, 5, 9, 7, 6, 1, 4, 2, 3,
       4, 0, 6, 4, 5, 3, 7, 9, 1,
       7, 0, 0, 9, 2, 4, 8, 0, 6,
       9, 6, 1, 5, 3, 7, 2, 0, 4,
       2, 8, 7, 0, 1, 9, 6, 3, 5,
       3, 4, 5, 2, 8, 0, 0, 7, 0 >>

\* a grid whose last empty cell has two candidates
LastCell ==
    << 5, 3, 4, 6, 7, 8, 9, 1, 2,
       6, 7, 2, 1, 9, 5, 3, 4, 8,
       1, 9, 8, 3, 4, 2, 5, 6, 7,
       8, 5, 9, 7, 6, 1, 4, 2, 3,
       4, 2, 6, 8, 0, 3, 7, 9, 1,
       7, 1, 3, 9, 2, 4, 8, 5, 6,
       0, 6, 1, 0, 3, 7, 2, 8, 4,
       2, 8, 6, 4, 1, 9, 6, 0, 5,
       3, 4, 0, 2, 8, 6, 1, 4, 9 >>

\* a grid with duplicated hints and two empty cells of three candidates each
ThreeWay ==
    << 0, 9, 9, 6, 7, 8, 9, 1, 2,
       6, 7, 2, 1, 9, 5, 3, 4, 8,
       1, 9, 8, 3, 4, 2, 5, 6, 7,
       8, 5, 9, 7, 6, 1, 4, 2, 3,
       9, 2, 6, 7, 0, 7, 7, 9, 1,
       7, 1, 3, 9, 2, 4, 8, 5, 6,
       9, 6, 1, 5, 7, 7, 2, 8, 4,
       2, 8, 7, 4, 1, 9, 6, 3, 5,
       9, 4, 5, 2, 7, 6, 1, 7, 9 >>

\* Solved with rows 0 and 1 cleared
Rows01 ==
    << 0, 0, 0, 0, 0, 0, 0, 0, 0,
       0, 0, 0, 0, 0, 0, 0, 0, 0,
       1, 9, 8, 3, 4, 2, 5, 6, 7,
       8, 5, 9, 7, 6, 1, 4, 2, 3,
       4, 2, 6, 8, 5, 3, 7, 9, 1,
       7, 1, 3, 9, 2, 4, 8, 5, 6,
       9, 6, 1, 5, 3, 7, 2, 8, 4,
       2, 8, 7, 4, 1, 9, 6, 3, 5,
       3, 4, 5, 2, 8, 6, 1, 7, 9 >>

\* Solved with rows 0..2 cleared: every empty cell has three candidates
Band0 ==
    << 0, 0, 0, 0, 0, 0, 0, 0, 0,
       0, 0, 0, 0, 0, 0, 0, 0, 0,
       0, 0, 0, 0, 0, 0, 0, 0, 0,
       8, 5, 9, 7, 6, 1, 4, 2, 3,
       4, 2, 6, 8, 5, 3, 7, 9, 1,
       7, 1, 3, 9, 2, 4, 8, 5, 6,
       9, 6, 1, 5, 3, 7, 2, 8, 4,
       2, 8, 7, 4, 1, 9, 6, 3, 5,
       3, 4, 5, 2, 8, 6, 1, 7, 9 >>

PuzzleList ==
    << Classic, Solved, TwoWay, Retry, Cycling, Stuck, LastCell, ThreeWay, Rows01, Band0 >>

Puzzles ==
    {PuzzleList[k] :
        k \in 1..(IF NumPuzzles < Len(PuzzleList) THEN NumPuzzles ELSE Len(PuzzleList))}

-----------------------------------------------------------------------------
(* Iteration orders *)

\* Every order in which a HashSet (or a Vec collected from one) may be iterated.
Orders(S) ==
    {order \in [1..Cardinality(S) -> S] :
        \A j, k \in 1..Cardinality(S) : j # k => order[j] # order[k]}

-----------------------------------------------------------------------------
(* The solver *)

BoardMove(position, new_value) ==
    [position |-> position, new_value |-> new_value, cascades |-> << >>]

\* The index in cells of a position [row, col].
IndexOf(position) == position[1] * 9 + position[2]

Idle == [stage |-> "idle"]

\* entropy_call before any call: no result recorded.
NoCall == [p \in {} |-> NoneEntropy]

\* main, line 25: the board is built from the puzzle string.
Init ==
    /\ board_string \in {StringOf(p) : p \in Puzzles}
    /\ cells = Board_new(board_string)
    /\ previous_moves = << >>
    /\ least_entropy_result = NoneLeast
    /\ pc = "new"
    /\ backtracked = FALSE
    /\ report = "none"
    /\ entropy_call = NoCall
    /\ gen = Idle
    /\ removal = Idle
    /\ before_move = << >>
    /\ last_branch = "none"

\* solve_board, lines 267-270: the loop is entered with the first selector result.
SolveBoardEnter ==
    /\ pc = "new"
    /\ previous_moves' = << >>
    /\ least_entropy_result' = find_least_entropy(cells)
    /\ pc' = "solving"
    /\ UNCHANGED << board_string, cells, backtracked, report, entropy_call, gen, removal,
                    before_move, last_branch >>

\* Mutant of ForEachValue: the values whose next candidate set is empty are the
\* ones pushed to valid_options.
RECURSIVE ForEachValue_KeepsStuck(_, _, _, _)
ForEachValue_KeepsStuck(order, k, next_entropy, valid_options) ==
    IF k > Len(order)
    THEN [returned |-> FALSE, last |-> Len(order), valid_options |-> valid_options]
    ELSE IF next_entropy[order[k]].some
         THEN ForEachValue_KeepsStuck(order, k + 1, next_entropy,
                  IF next_entropy[order[k]].entropy = {}
                  THEN Append(valid_options, order[k])
                  ELSE valid_options)
         ELSE [returned |-> TRUE, last |-> k, valid_options |-> valid_options]

\* Mutant of Reduce: the accumulator is replaced by an option whose next
\* candidate set is larger.
RECURSIVE Reduce_KeepsLarger(_, _, _, _)
Reduce_KeepsLarger(valid_options, k, next_entropy, acc) ==
    IF k > Len(valid_options)
    THEN acc
    ELSE Reduce_KeepsLarger(valid_options, k + 1, next_entropy,
                IF Cardinality(next_entropy[valid_options[k]].entropy)
                      > Cardinality(next_entropy[acc].entropy)
                THEN valid_options[k]
                ELSE acc)

\* The for loop of lines 288-299 over min_entropy in the given order, from its
\* k-th value on: where it stopped (returned: the return Ok(()) of line 297) and
\* the values pushed to valid_options.
RECURSIVE ForEachValue(_, _, _, _)
ForEachValue(order, k, next_entropy, valid_options) ==
    IF k > Len(order)
    THEN [returned |-> FALSE, last |-> Len(order), valid_options |-> valid_options]
    ELSE IF next_entropy[order[k]].some
         THEN ForEachValue(order, k + 1, next_entropy,
                  IF next_entropy[order[k]].entropy # {}
                  THEN Append(valid_options, order[k])
                  ELSE valid_options)
         ELSE [returned |-> TRUE, last |-> k, valid_options |-> valid_options]

\* The reduce of lines 300-305 from the k-th valid option on: the accumulator is
\* replaced only by an option whose next candidate set is strictly smaller.
RECURSIVE Reduce(_, _, _, _)
Reduce(valid_options, k, next_entropy, acc) ==
    IF k > Len(valid_options)
    THEN acc
    ELSE Reduce(valid_options, k + 1, next_entropy,
                IF Cardinality(next_entropy[valid_options[k]].entropy)
                      < Cardinality(next_entropy[acc].entropy)
                THEN valid_options[k]
                ELSE acc)

\* backtrack: every outcome of a call on board b with the history moves: the
\* board and the history it leaves, the value it returns, and whether the
\* assertion of line 351 failed.
RECURSIVE backtrack(_, _)
backtrack(b, moves) ==
    IF moves = << >>
    THEN {[panic |-> TRUE, cells |-> b, previous_moves |-> moves, result |-> NoneLeast]}
    ELSE
    LET last_move == moves[Len(moves)]
        popped == SubSeq(moves, 1, Len(moves) - 1)
        cascade_indices ==
            {last_move.cascades[k][1] * 9 + last_move.cascades[k][2] :
                k \in 1..Len(last_move.cascades)}
        last_move_position == last_move.position
        last_move_position_index == last_move_position[1] * 9 + last_move_position[2]
        cleared ==
            [i \in 0..80 |->
                IF i \in cascade_indices \/ i = last_move_position_index THEN 0 ELSE b[i]]
        last_cell_entropy ==
            calculate_entropy_at_cell(cleared, last_move_position[1],
                                      last_move_position[2]).options
                \ {last_move.new_value}
        next_data ==
            [possible_value \in last_cell_entropy |->
                find_least_entropy(
                    [cleared EXCEPT ![last_move_position_index] = possible_value])]
        survivors ==
            {v \in last_cell_entropy : next_data[v].some /\ next_data[v].entropy # {}}
    IN  UNION {
          LET tried ==
                  IF order = << >>
                  THEN cleared
                  ELSE [cleared EXCEPT ![last_move_position_index] = order[Len(order)]]
          IN  IF survivors # {}
              THEN {[panic |-> FALSE,
                     cells |-> tried,
                     previous_moves |->
                         Append(popped, BoardMove(last_move_position, substitute_val)),
                     result |-> next_data[substitute_val]] :
                        substitute_val \in survivors}
              ELSE {[outcome EXCEPT !.result = NoneLeast] :
                        outcome \in backtrack(tried, popped)}
          : order \in Orders(last_cell_entropy) }

\* Mutant of Backtrack: the cell of the popped Move is left empty.
Backtrack_CellLeftEmpty ==
    /\ pc = "solving"
    /\ least_entropy_result.some
    /\ least_entropy_result.entropy = {}
    /\ \E outcome \in backtrack(cells, previous_moves) :
          /\ cells' =
                IF outcome.panic
                THEN outcome.cells
                ELSE [outcome.cells EXCEPT
                         ![IndexOf(outcome.previous_moves[
                                       Len(outcome.previous_moves)].position)] = 0]
          /\ previous_moves' = outcome.previous_moves
          /\ least_entropy_result' =
                IF outcome.panic THEN least_entropy_result ELSE outcome.result
          /\ pc' = IF outcome.panic THEN "panic_assert" ELSE "solving"
          /\ before_move' = SubSeq(before_move, 1, Len(outcome.previous_moves))
    /\ backtracked' = TRUE
    /\ last_branch' = "backtrack"
    /\ UNCHANGED << board_string, report, entropy_call, gen, removal >>

\* Mutant of Backtrack: the substitute Move records the value of the popped
\* Move.
Backtrack_SameValue ==
    /\ pc = "solving"
    /\ least_entropy_result.some
    /\ least_entropy_result.entropy = {}
    /\ \E outcome \in backtrack(cells, previous_moves) :
          /\ cells' = outcome.cells
          /\ previous_moves' =
                IF outcome.panic
                THEN outcome.previous_moves
                ELSE [outcome.previous_moves EXCEPT
                         ![Len(outcome.previous_moves)].new_value =
                             previous_moves[Len(previous_moves)].new_value]
          /\ least_entropy_result' =
                IF outcome.panic THEN least_entropy_result ELSE outcome.result
          /\ pc' = IF outcome.panic THEN "panic_assert" ELSE "solving"
          /\ before_move' = SubSeq(before_move, 1, Len(outcome.previous_moves))
    /\ backtracked' = TRUE
    /\ last_branch' = "backtrack"
    /\ UNCHANGED << board_string, report, entropy_call, gen, removal >>

\* solve_board, lines 274-277: the selected cell has no candidate.
Backtrack ==
    /\ pc = "solving"
    /\ least_entropy_result.some
    /\ least_entropy_result.entropy = {}
    /\ \E outcome \in backtrack(cells, previous_moves) :
          /\ cells' = outcome.cells
          /\ previous_moves' = outcome.previous_moves
          /\ least_entropy_result' =
                IF outcome.panic THEN least_entropy_result ELSE outcome.result
          /\ pc' = IF outcome.panic THEN "panic_assert" ELSE "solving"
          /\ before_move' = SubSeq(before_move, 1, Len(outcome.previous_moves))
    /\ backtracked' = TRUE
    /\ last_branch' = "backtrack"
    /\ UNCHANGED << board_string, report, entropy_call, gen, removal >>

\* Mutant of SingleFill: the position is not pushed to the cascades of the last
\* Move.
SingleFill_NoCascade ==
    /\ pc = "solving"
    /\ least_entropy_result.some
    /\ Cardinality(least_entropy_result.entropy) = 1
    /\ \E value \in least_entropy_result.entropy :
          cells' = [cells EXCEPT ![IndexOf(least_entropy_result.pos)] = value]
    /\ least_entropy_result' = find_least_entropy(cells')
    /\ pc' = "solving"
    /\ last_branch' = "fill"
    /\ UNCHANGED << board_string, previous_moves, backtracked, report, entropy_call,
                    gen, removal, before_move >>

\* Mutant of SingleFill: the fill is pushed as a Move of its own.
SingleFill_PushesMove ==
    /\ pc = "solving"
    /\ least_entropy_result.some
    /\ Cardinality(least_entropy_result.entropy) = 1
    /\ \E value \in least_entropy_result.entropy :
          /\ cells' = [cells EXCEPT ![IndexOf(least_entropy_result.pos)] = value]
          /\ previous_moves' =
                Append(previous_moves, BoardMove(least_entropy_result.pos, value))
    /\ before_move' = Append(before_move, cells)
    /\ least_entropy_result' = find_least_entropy(cells')
    /\ pc' = "solving"
    /\ last_branch' = "fill"
    /\ UNCHANGED << board_string, backtracked, report, entropy_call, gen, removal >>

\* solve_board, lines 280-285 and 312: the selected cell has one candidate.
SingleFill ==
    /\ pc = "solving"
    /\ least_entropy_result.some
    /\ Cardinality(least_entropy_result.entropy) = 1
    /\ LET row == least_entropy_result.pos[1]
           col == least_entropy_result.pos[2]
           cell_index == row * 9 + col
       IN  /\ \E value \in least_entropy_result.entropy :
                 cells' = [cells EXCEPT ![cell_index] = value]
           /\ previous_moves' =
                 IF previous_moves # << >>
                 THEN [previous_moves EXCEPT ![Len(previous_moves)].cascades =
                          Append(@, << row, col >>)]
                 ELSE previous_moves
    /\ least_entropy_result' = find_least_entropy(cells')
    /\ pc' = "solving"
    /\ last_branch' = "fill"
    /\ UNCHANGED << board_string, backtracked, report, entropy_call, gen, removal,
                    before_move >>

\* solve_board, lines 286-312: the selected cell has several candidates.
Choose ==
    /\ pc = "solving"
    /\ least_entropy_result.some
    /\ Cardinality(least_entropy_result.entropy) > 1
    /\ LET row == least_entropy_result.pos[1]
           col == least_entropy_result.pos[2]
           min_entropy == least_entropy_result.entropy
           cell_index == row * 9 + col
           next_entropy ==
               [value \in min_entropy |->
                   find_least_entropy([cells EXCEPT ![cell_index] = value])]
       IN  \E order \in Orders(min_entropy) :
              LET loop == ForEachValue(order, 1, next_entropy, << >>)
                  valid_options == loop.valid_options
              IN  /\ cells' = [cells EXCEPT ![cell_index] = order[loop.last]]
                  /\ IF loop.returned
                     THEN /\ pc' = "Ok"
                          /\ UNCHANGED << previous_moves, least_entropy_result,
                                          before_move >>
                     ELSE IF valid_options = << >>
                     THEN /\ pc' = "panic_unwrap"
                          /\ UNCHANGED << previous_moves, least_entropy_result,
                                          before_move >>
                     ELSE /\ previous_moves' =
                                Append(previous_moves,
                                       BoardMove(<< row, col >>,
                                                 Reduce(valid_options, 2, next_entropy,
                                                        valid_options[1])))
                          /\ before_move' = Append(before_move, cells)
                          /\ least_entropy_result' = find_least_entropy(cells')
                          /\ pc' = "solving"
    /\ last_branch' = "choose"
    /\ UNCHANGED << board_string, backtracked, report, entropy_call, gen, removal >>

\* solve_board, lines 271 and 315: the loop ends when the selector result is None.
SolveBoardReturn ==
    /\ pc = "solving"
    /\ ~least_entropy_result.some
    /\ pc' = "Ok"
    /\ UNCHANGED << board_string, cells, previous_moves, least_entropy_result,
                    backtracked, report, entropy_call, gen, removal,
                    before_move, last_branch >>

\* main, lines 35-43: after solve_board has returned, the board is validated.
ValidateSolved ==
    /\ pc \in {"Ok", "Err"}
    /\ report' = validate_board(cells)
    /\ pc' = "validated"
    /\ UNCHANGED << board_string, cells, previous_moves, least_entropy_result,
                    backtracked, entropy_call, gen, removal,
                    before_move, last_branch >>

Next ==
    \/ SolveBoardEnter
    \/ Backtrack
    \/ SingleFill
    \/ Choose
    \/ SolveBoardReturn
    \/ ValidateSolved

Spec == Init /\ [][Next]_vars

-----------------------------------------------------------------------------
(* The rules of Sudoku, stated on the board itself *)

NoEmptyCell(b) == \A i \in 0..80 : b[i] # 0

\* The cells of the row, of the column and of the tile of the cell (row, col).
RowOf(row) == {row * 9 + c : c \in 0..8}
ColumnOf(col) == {r * 9 + col : r \in 0..8}
TileOf(row, col) ==
    {r * 9 + c : r \in {x \in 0..8 : x \div 3 = row \div 3},
                 c \in {y \in 0..8 : y \div 3 = col \div 3}}

\* The nine rows, the nine columns and the nine tiles.
Units ==
    {RowOf(row) : row \in 0..8} \cup {ColumnOf(col) : col \in 0..8}
        \cup {TileOf(3 * tr, 3 * tc) : tr \in 0..2, tc \in 0..2}

\* Every row, column and tile holds each digit 1..9 exactly once: its nine cells
\* hold nine different digits of 1..9.
CompleteAndValid(b) == \A unit \in Units : {b[i] : i \in unit} = 1..9

\* The digits 1..9 that occur neither in the row, nor in the column, nor in the
\* tile of the cell (row, col).
FreeDigits(b, row, col) ==
    {d \in 1..9 :
        \A i \in RowOf(row) \cup ColumnOf(col) \cup TileOf(row, col) : b[i] # d}

\* The board the run started from.
InputBoard == [i \in 0..80 |-> board_string[i + 1] - 48]

-----------------------------------------------------------------------------
(* Claims about solve_board *)

\* C1: whenever solve_board has returned Ok, the grid has no empty cell and
\* find_least_entropy on it returns None.
C1_OkHasNoEmptyCell ==
    pc = "Ok" => NoEmptyCell(cells) /\ ~find_least_entropy(cells).some

\* C1 witness: Ok is returned after choices and a backtrack.
C1_OkAfterBacktrack ==
    pc = "Ok" /\ backtracked /\ previous_moves # << >> /\ NoEmptyCell(cells)

\* C2 as claimed: when backtracking is reached with an empty history, solve_board
\* returns Err (it neither aborts nor returns Ok).
C2_EmptyHistoryReturnsErr ==
    [][(/\ pc = "solving"
        /\ least_entropy_result.some
        /\ least_entropy_result.entropy = {}
        /\ previous_moves = << >>) => pc' = "Err"]_vars

\* The safety part of C3, in every state of the run on Classic.
ClassicRunInvariant ==
    board_string = StringOf(Classic) =>
        /\ pc \in {"new", "solving", "Ok", "validated"}
        /\ \A i \in 0..80 : Classic[i + 1] # 0 => cells[i] = Classic[i + 1]
        /\ pc \in {"Ok", "validated"} =>
              /\ cells = [i \in 0..80 |-> Solved[i + 1]]
              /\ CompleteAndValid(cells)
        /\ pc = "validated" => report = "valid"

\* The number of empty cells of a board.
EmptyCount(b) == Cardinality({i \in 0..80 : b[i] = 0})

\* C3: started on the puzzle Classic, the run never aborts and never changes a
\* hint; every iteration of the solver loop fills one more cell or returns Ok,
\* so the loop ends; solve_board returns Ok with the completed grid Solved, which
\* is complete and valid and which validate_board reports valid.
C3_ClassicIsSolved ==
    /\ []ClassicRunInvariant
    /\ [][(board_string = StringOf(Classic) /\ pc = "solving") =>
              (pc' = "Ok" \/ (pc' = "solving" /\ EmptyCount(cells') < EmptyCount(cells)))]_vars

\* C3 witness: the run on Classic has ended with the completed grid, reported valid.
C3_ClassicValidated ==
    /\ board_string = StringOf(Classic)
    /\ pc = "validated"
    /\ report = "valid"
    /\ cells = [i \in 0..80 |-> Solved[i + 1]]

\* C8: on a grid with no empty cell solve_board returns Ok at once: the first
\* selector result is None, no cell changes, no Move is pushed and backtrack is
\* never called.
C8_FullGridUntouched ==
    NoEmptyCell(InputBoard) =>
        /\ cells = InputBoard
        /\ previous_moves = << >>
        /\ ~backtracked
        /\ pc \in {"new", "solving", "Ok", "validated"}
        /\ pc = "solving" => ~least_entropy_result.some

\* C8 witness: solve_board has returned Ok on a grid that had no empty cell.
C8_FullGridOk ==
    NoEmptyCell(InputBoard) /\ pc = "Ok" /\ cells = InputBoard

\* C12 as claimed: at the top of the solver loop the cell of every Move on the
\* stack holds the Move's new_value.
C12_MoveCellsHoldNewValue ==
    pc = "solving" =>
        \A k \in 1..Len(previous_moves) :
            cells[IndexOf(previous_moves[k].position)] = previous_moves[k].new_value

\* The loop iteration of solve_board that starts in this state calls backtrack
\* and backtrack returns to the loop.
BacktrackStep ==
    /\ pc = "solving"
    /\ least_entropy_result.some
    /\ least_entropy_result.entropy = {}
    /\ pc' = "solving"

\* C13: when backtrack has pushed a substitute and returns a selector result to
\* the loop, that result is Some and is what find_least_entropy returns on the
\* grid as it stands.
C13_BacktrackResultIsCurrent ==
    [][BacktrackStep =>
          /\ least_entropy_result'.some
          /\ least_entropy_result' = find_least_entropy(cells')]_vars

\* C13 witness: backtrack has just returned a result for a grid in which the
\* substitute is in the cell of the Move on top.
C13_AfterSubstitute ==
    /\ pc = "solving"
    /\ last_branch = "backtrack"
    /\ previous_moves # << >>
    /\ least_entropy_result.some
    /\ cells[IndexOf(previous_moves[Len(previous_moves)].position)]
          = previous_moves[Len(previous_moves)].new_value

\* C14: when backtrack pops a Move and clears it, the grid is the grid as it
\* was just before the cell of that Move was written: with the substitute taken
\* out again, the grid in which backtrack returns is the one recorded before the
\* Move at that height of the stack.
C14_UndoIsExact ==
    [][BacktrackStep =>
          LET height == Len(previous_moves')
          IN  /\ height >= 1
              /\ height <= Len(before_move)
              /\ [cells' EXCEPT ![IndexOf(previous_moves'[height].position)] = 0]
                    = before_move[height]]_vars

\* C14 witness: backtrack has undone a Move that lay on another Move with
\* cascades, and cells filled after the undone Move are empty again.
C14_UndoneAboveAnotherMove ==
    /\ pc = "solving"
    /\ last_branch = "backtrack"
    /\ Len(previous_moves) >= 2
    /\ previous_moves[Len(previous_moves) - 1].cascades # << >>
    /\ previous_moves[Len(previous_moves)].cascades = << >>
    /\ [cells EXCEPT ![IndexOf(previous_moves[Len(previous_moves)].position)] = 0]
          = before_move[Len(previous_moves)]

\* The loop iteration of solve_board that starts in this state takes the branch
\* of several candidates and pushes a Move.
ChooseStep ==
    /\ pc = "solving"
    /\ least_entropy_result.some
    /\ Cardinality(least_entropy_result.entropy) > 1
    /\ pc' = "solving"

\* What find_least_entropy returns on b with value placed at position.
Lookahead(b, position, value) ==
    find_least_entropy([b EXCEPT ![IndexOf(position)] = value])

\* C15: the branch of several candidates never aborts on an empty valid_options:
\* whenever the selected cell has several candidates and none of them completes
\* the grid, the lookahead of at least one of them has a non-empty candidate set.
C15_SomeCandidateSurvives ==
    /\ pc # "panic_unwrap"
    /\ (pc = "solving" /\ least_entropy_result.some
           /\ Cardinality(least_entropy_result.entropy) > 1) =>
          ((\A value \in least_entropy_result.entropy :
               Lookahead(cells, least_entropy_result.pos, value).some) =>
           (\E value \in least_entropy_result.entropy :
               Lookahead(cells, least_entropy_result.pos, value).entropy # {}))

\* C15 witness: no candidate completed the grid and a choice has been committed.
C15_ChoiceCommitted ==
    /\ pc = "solving"
    /\ last_branch = "choose"
    /\ previous_moves # << >>
    /\ previous_moves[Len(previous_moves)].cascades = << >>
    /\ cells[IndexOf(previous_moves[Len(previous_moves)].position)] # 0

\* C16: the value recorded in the Move pushed by the branch of several
\* candidates is a candidate of the selected cell whose lookahead has a
\* non-empty candidate set, and no candidate with a non-empty lookahead set has
\* a smaller one.
C16_ChoiceHasLeastLookahead ==
    [][ChooseStep =>
          LET position == least_entropy_result.pos
              min_entropy == least_entropy_result.entropy
              pushed == previous_moves'[Len(previous_moves')]
              choice == pushed.new_value
          IN  /\ Len(previous_moves') = Len(previous_moves) + 1
              /\ pushed.position = position
              /\ choice \in min_entropy
              /\ Lookahead(cells, position, choice).some
              /\ Lookahead(cells, position, choice).entropy # {}
              /\ \A value \in min_entropy :
                    (/\ Lookahead(cells, position, value).some
                     /\ Lookahead(cells, position, value).entropy # {}) =>
                        Cardinality(Lookahead(cells, position, choice).entropy)
                            <= Cardinality(Lookahead(cells, position, value).entropy)]_vars

\* C16 witness: a choice has been recorded whose lookahead set is smaller than
\* that of another candidate of the cell.
C16_SmallerLookaheadChosen ==
    /\ pc = "solving"
    /\ last_branch = "choose"
    /\ previous_moves # << >>
    /\ LET pushed == previous_moves[Len(previous_moves)]
           before == before_move[Len(previous_moves)]
       IN  \E value \in FreeDigits(before, pushed.position[1], pushed.position[2]) :
              Cardinality(Lookahead(before, pushed.position, value).entropy)
                  > Cardinality(Lookahead(before, pushed.position,
                                          pushed.new_value).entropy)

\* The loop iteration of solve_board that starts in this state takes the branch
\* of a single candidate.
FillStep ==
    /\ pc = "solving"
    /\ least_entropy_result.some
    /\ Cardinality(least_entropy_result.entropy) = 1

\* C17: a single-candidate fill writes the one candidate into the selected cell
\* and pushes no Move: the stack keeps its length, the position is appended to
\* the cascades of the Move on top if and only if there is one, and nothing else
\* of the stack changes. The stack grows only by a Move for a cell selected with
\* several candidates, and changes otherwise only in a fill or in backtrack.
C17_FillPushesNoMove ==
    [][/\ FillStep =>
             /\ cells' = [cells EXCEPT ![IndexOf(least_entropy_result.pos)] =
                             CHOOSE value \in least_entropy_result.entropy : TRUE]
             /\ Len(previous_moves') = Len(previous_moves)
             /\ previous_moves = << >> => previous_moves' = << >>
             /\ previous_moves # << >> =>
                   previous_moves' =
                       [previous_moves EXCEPT ![Len(previous_moves)].cascades =
                           Append(@, least_entropy_result.pos)]
       /\ Len(previous_moves') > Len(previous_moves) =>
             /\ least_entropy_result.some
             /\ Cardinality(least_entropy_result.entropy) > 1
             /\ previous_moves' =
                   Append(previous_moves, previous_moves'[Len(previous_moves')])
             /\ previous_moves'[Len(previous_moves')].position = least_entropy_result.pos
             /\ previous_moves'[Len(previous_moves')].cascades = << >>
       /\ (Len(previous_moves') <= Len(previous_moves)
              /\ previous_moves' # previous_moves) =>
             /\ least_entropy_result.some
             /\ Cardinality(least_entropy_result.entropy) <= 1]_vars

\* C17 witness: a single candidate has just been filled in below a Move, and its
\* position is the last of the cascades of the Move on top.
C17_FillCascaded ==
    /\ pc = "solving"
    /\ last_branch = "fill"
    /\ previous_moves # << >>
    /\ LET cascades == previous_moves[Len(previous_moves)].cascades
       IN  /\ cascades # << >>
           /\ cells[IndexOf(cascades[Len(cascades)])] # 0

\* The grid once backtrack has cleared the cascades and the position of move.
ClearedOf(b, move) ==
    [i \in 0..80 |->
        IF \/ i = IndexOf(move.position)
           \/ \E k \in 1..Len(move.cascades) : i = IndexOf(move.cascades[k])
        THEN 0
        ELSE b[i]]

\* C18: the substitute Move pushed by backtrack for a popped Move is at the
\* same position, its value differs from the popped Move's new_value and is a
\* candidate of the cell in the grid with the popped Move and its cascades
\* cleared, and the selector result with that value placed, which is the one
\* returned, has a non-empty candidate set.
C18_SubstituteIsFreshCandidate ==
    [][BacktrackStep =>
          /\ Len(previous_moves') = Len(previous_moves)
          /\ LET popped == previous_moves[Len(previous_moves)]
                 substitute == previous_moves'[Len(previous_moves')]
                 cleared == ClearedOf(cells, popped)
             IN  /\ substitute.position = popped.position
                 /\ substitute.cascades = << >>
                 /\ substitute.new_value # popped.new_value
                 /\ substitute.new_value
                       \in FreeDigits(cleared, popped.position[1], popped.position[2])
                 /\ Lookahead(cleared, popped.position, substitute.new_value).some
                 /\ Lookahead(cleared, popped.position, substitute.new_value).entropy # {}
                 /\ least_entropy_result'
                       = Lookahead(cleared, popped.position, substitute.new_value)]_vars

\* C18 witness: backtrack has pushed a substitute, which is now in its cell, and
\* the selector result has a non-empty candidate set.
C18_SubstitutePushed ==
    /\ pc = "solving"
    /\ last_branch = "backtrack"
    /\ previous_moves # << >>
    /\ previous_moves[Len(previous_moves)].cascades = << >>
    /\ least_entropy_result.some
    /\ least_entropy_result.entropy # {}

\* No row, column or tile of the board holds a digit other than 0 twice.
NoDuplicatedDigit(b) ==
    \A unit \in Units : \A i, j \in unit : (i # j /\ b[i] # 0) => b[i] # b[j]

\* C19: started on a puzzle without a duplicated digit, every state of the
\* solver is without a duplicated digit, and every value a step leaves in a cell
\* is a candidate of that cell in the grid the value was written into.
C19_NoDuplicateEverWritten ==
    /\ [](NoDuplicatedDigit(InputBoard) => NoDuplicatedDigit(cells))
    /\ [][NoDuplicatedDigit(InputBoard) =>
             \A i \in 0..80 :
                 (cells'[i] # cells[i] /\ cells'[i] # 0) =>
                     cells'[i] \in FreeDigits([cells' EXCEPT ![i] = 0],
                                              i \div 9, i % 9)]_vars

\* C19 witness: on a puzzle without a duplicated digit the solver has chosen,
\* filled and backtracked, and has returned Ok on a grid without one.
C19_CleanAfterBacktrack ==
    /\ NoDuplicatedDigit(InputBoard)
    /\ backtracked
    /\ previous_moves # << >>
    /\ pc = "Ok"
    /\ NoDuplicatedDigit(cells)
    /\ NoEmptyCell(cells)

\* C20: no hint is ever changed: every cell that is not 0 in the puzzle holds
\* its value in every state, and the positions and cascades of the Moves are
\* cells that were empty in the puzzle.
C20_HintsNeverChange ==
    /\ \A i \in 0..80 : InputBoard[i] # 0 => cells[i] = InputBoard[i]
    /\ \A k \in 1..Len(previous_moves) :
          /\ InputBoard[IndexOf(previous_moves[k].position)] = 0
          /\ \A c \in 1..Len(previous_moves[k].cascades) :
                InputBoard[IndexOf(previous_moves[k].cascades[c])] = 0

\* C20 witness: backtrack has just cleared cells, hints are in place next to
\* cells that are empty again.
C20_HintsKeptThroughBacktrack ==
    /\ pc = "solving"
    /\ last_branch = "backtrack"
    /\ \E i \in 0..80 : InputBoard[i] # 0 /\ cells[i] = InputBoard[i]
    /\ \E i \in 0..80 : InputBoard[i] = 0 /\ cells[i] = 0
    /\ \E i \in 0..80 : InputBoard[i] = 0 /\ cells[i] # 0

\* The program is one sequential thread that is never suspended for good:
\* whenever it has a next step, it takes one.
FairSpec == Init /\ [][Next]_vars /\ WF_vars(Next)

\* solve_board has returned or the run has aborted.
Terminated == pc \in {"Ok", "Err", "validated", "panic_assert", "panic_unwrap"}

\* C21 as claimed: solve_board eventually terminates on every puzzle, with
\* success or with the failure of the empty history; no run goes on between
\* propagating and backtracking forever.
C21_SolveBoardTerminates == <>Terminated

-----------------------------------------------------------------------------
(* The board functions called on their own: calculate_entropy_at_cell,       *)
(* find_least_entropy and validate_board on a bounded set of boards.         *)

EmptyGrid == [k \in 1..81 |-> 0]

\* The cells (3,3), (4,3) and (3,4): one tile, two of them in one column, two in
\* one row.
EditCells == {30, 39, 31}

\* The digit sequences that differ from base in the cells of the set where.
Overwritten(base, where) ==
    {[k \in 1..81 |-> IF k - 1 \in where THEN f[k - 1] ELSE base[k]] :
        f \in [where -> 0..9]}

BoardInputs ==
    UNION {Overwritten(base, where) :
              base \in {Solved, Classic, EmptyGrid},
              where \in {w \in SUBSET EditCells : Cardinality(w) <= MaxEdits}}

\* Board::new on one of the input strings.
InitBoard ==
    /\ board_string \in {StringOf(p) : p \in BoardInputs}
    /\ cells = Board_new(board_string)
    /\ previous_moves = << >>
    /\ least_entropy_result = NoneLeast
    /\ pc = "board"
    /\ backtracked = FALSE
    /\ report = "none"
    /\ entropy_call = NoCall
    /\ gen = Idle
    /\ removal = Idle
    /\ before_move = << >>
    /\ last_branch = "none"

\* calculate_entropy_at_cell called at every cell of the board.
CallCalculateEntropy ==
    /\ pc = "board"
    /\ entropy_call' =
          [p \in (0..8) \X (0..8) |-> calculate_entropy_at_cell(cells, p[1], p[2])]
    /\ pc' = "entropy_done"
    /\ UNCHANGED << board_string, cells, previous_moves, least_entropy_result,
                    backtracked, report, gen, removal,
                    before_move, last_branch >>

\* find_least_entropy called on the board.
CallFindLeastEntropy ==
    /\ pc = "board"
    /\ least_entropy_result' = find_least_entropy(cells)
    /\ pc' = "least_done"
    /\ UNCHANGED << board_string, cells, previous_moves, backtracked, report,
                    entropy_call, gen, removal,
                    before_move, last_branch >>

\* validate_board called on the board.
CallValidateBoard ==
    /\ pc = "board"
    /\ report' = validate_board(cells)
    /\ pc' = "validate_done"
    /\ UNCHANGED << board_string, cells, previous_moves, least_entropy_result,
                    backtracked, entropy_call, gen, removal,
                    before_move, last_branch >>

NextBoard ==
    \/ CallCalculateEntropy
    \/ CallFindLeastEntropy
    \/ CallValidateBoard

SpecBoard == InitBoard /\ [][NextBoard]_vars

-----------------------------------------------------------------------------
(* Claims about the board functions *)

\* Two cells of the set hold the same digit.
HasDuplicate(b, unit) == \E i, j \in unit : i # j /\ b[i] = b[j]

SomeUnitHasDuplicate(b) ==
    \/ \E row \in 0..8 : HasDuplicate(b, RowOf(row))
    \/ \E col \in 0..8 : HasDuplicate(b, ColumnOf(col))
    \/ \E tr \in 0..2, tc \in 0..2 : HasDuplicate(b, TileOf(3 * tr, 3 * tc))

\* C7 as claimed: on a grid with no empty cell validate_board reports invalid
\* if some row, column or tile holds a digit twice, and valid otherwise.
C7_ValidateFindsEveryDuplicate ==
    (pc = "validate_done" /\ NoEmptyCell(cells)) =>
        (report = "invalid" <=> SomeUnitHasDuplicate(cells))

\* C9: find_least_entropy returns None if and only if no cell is empty; with an
\* empty cell it returns Some, also when the selected cell has no candidate and
\* when every empty cell has all nine.
C9_NoneIffNoEmptyCell ==
    pc = "least_done" =>
        /\ ~least_entropy_result.some <=> NoEmptyCell(cells)
        /\ least_entropy_result.some =>
              cells[least_entropy_result.pos[1] * 9 + least_entropy_result.pos[2]] = 0

\* C9 witness: Some is returned for a cell without candidates.
C9_SomeWithoutCandidates ==
    /\ pc = "least_done"
    /\ least_entropy_result.some
    /\ least_entropy_result.entropy = {}

\* C10: calculate_entropy_at_cell returns None for a filled cell and, for an
\* empty cell, exactly the digits 1..9 that occur in neither its row, its column
\* nor its tile; 0 is never returned and the board is not modified.
C10_EntropyIsFreeDigits ==
    pc = "entropy_done" =>
        /\ cells = InputBoard
        /\ \A row \in 0..8, col \in 0..8 :
              LET result == entropy_call[<< row, col >>]
              IN  /\ cells[row * 9 + col] # 0 => ~result.some
                  /\ cells[row * 9 + col] = 0 =>
                        /\ result.some
                        /\ result.options = FreeDigits(cells, row, col)
                        /\ 0 \notin result.options

\* C10 witness: the board has filled cells, an empty cell with candidates and an
\* empty cell without.
C10_MixedBoard ==
    /\ pc = "entropy_done"
    /\ \E p \in DOMAIN entropy_call : ~entropy_call[p].some
    /\ \E p \in DOMAIN entropy_call :
          entropy_call[p].some /\ Cardinality(entropy_call[p].options) > 1
    /\ \E p \in DOMAIN entropy_call :
          entropy_call[p].some /\ entropy_call[p].options = {}

\* C11: when the grid has an empty cell, find_least_entropy returns the
\* position and the candidate set of an empty cell whose candidate set is of the
\* least size over all empty cells, and of the cells of that size the first in
\* row-major order.
C11_FirstOfLeast ==
    (pc = "least_done" /\ ~NoEmptyCell(cells)) =>
        /\ least_entropy_result.some
        /\ LET row == least_entropy_result.pos[1]
               col == least_entropy_result.pos[2]
               least == Cardinality(least_entropy_result.entropy)
           IN  /\ cells[row * 9 + col] = 0
               /\ least_entropy_result.entropy = FreeDigits(cells, row, col)
               /\ \A r \in 0..8, c \in 0..8 :
                      cells[r * 9 + c] = 0 =>
                          /\ Cardinality(FreeDigits(cells, r, c)) >= least
                          /\ Cardinality(FreeDigits(cells, r, c)) = least =>
                                 r * 9 + c >= row * 9 + col

\* C11 witness: a later empty cell has as few candidates as the returned cell,
\* and another empty cell has more.
C11_TieBrokenByOrder ==
    /\ pc = "least_done"
    /\ least_entropy_result.some
    /\ LET row == least_entropy_result.pos[1]
           col == least_entropy_result.pos[2]
           least == Cardinality(least_entropy_result.entropy)
       IN  /\ \E r \in 0..8, c \in 0..8 :
                  /\ r * 9 + c > row * 9 + col
                  /\ cells[r * 9 + c] = 0
                  /\ Cardinality(FreeDigits(cells, r, c)) = least
           /\ \E r \in 0..8, c \in 0..8 :
                  /\ cells[r * 9 + c] = 0
                  /\ Cardinality(FreeDigits(cells, r, c)) > least

-----------------------------------------------------------------------------
(* generate_board *)

\* A sequence as a 0-indexed array.
ArrayOf(seq) == [i \in 0..(Len(seq) - 1) |-> seq[i + 1]]

\* Shuffles of (0..9): permutations of 0..8.
BaseRowList ==
    << << 0, 1, 2, 3, 4, 5, 6, 7, 8 >>,
       << 8, 7, 6, 5, 4, 3, 2, 1, 0 >>,
       << 4, 0, 7, 2, 8, 1, 6, 3, 5 >>,
       << 1, 0, 3, 2, 5, 4, 7, 6, 8 >> >>

\* Shuffles of (1..=9): permutations of 1..9.
RelabelingList ==
    << << 1, 2, 3, 4, 5, 6, 7, 8, 9 >>,
       << 5, 3, 4, 6, 7, 8, 9, 1, 2 >>,
       << 9, 8, 7, 6, 5, 4, 3, 2, 1 >>,
       << 2, 1, 4, 3, 6, 5, 8, 7, 9 >> >>

FirstOf(list, n) == {list[k] : k \in 1..(IF n < Len(list) THEN n ELSE Len(list))}

\* slice::rotate_left(n) on an array of nine.
rotate_left(row, n) == [i \in 0..8 |-> row[(i + n) % 9]]

\* Mutant of RotatedRows: every row is the previous one rotated by three.
RECURSIVE RotatedRows_AlwaysThree(_, _)
RotatedRows_AlwaysThree(rows, i) ==
    IF i > 8
    THEN rows
    ELSE RotatedRows_AlwaysThree([rows EXCEPT ![i] = rotate_left(rows[i - 1], 3)], i + 1)

\* generate_board, lines 66-79: the nine rows from the base row, from row i on.
RECURSIVE RotatedRows(_, _)
RotatedRows(rows, i) ==
    IF i > 8
    THEN rows
    ELSE LET rotated_previous_row ==
                 IF i % 3 = 0
                 THEN rotate_left(rows[i - 1], 1)
                 ELSE rotate_left(rows[i - 1], 3)
         IN  RotatedRows([rows EXCEPT ![i] = rotated_previous_row], i + 1)

\* Lines 83-89 and 104-108: every outcome of shuffling [3i, 3i+1, 3i+2] for
\* i = 0, 1, 2 and chaining the three orders.
ShuffledOrders ==
    {[k \in 0..8 |-> IF k < 3 THEN a[k + 1] ELSE IF k < 6 THEN b[k - 2] ELSE c[k - 5]] :
        a \in Orders({0, 1, 2}), b \in Orders({3, 4, 5}), c \in Orders({6, 7, 8})}

GenStart == [stage |-> "start", rows |-> << >>, shuffled_numbers |-> << >>]

\* main, line 22: generate_board is called.
InitGen ==
    /\ board_string = << >>
    /\ cells = [i \in 0..80 |-> 0]
    /\ previous_moves = << >>
    /\ least_entropy_result = NoneLeast
    /\ pc = "generate"
    /\ backtracked = FALSE
    /\ report = "none"
    /\ entropy_call = NoCall
    /\ gen = GenStart
    /\ removal = Idle
    /\ before_move = << >>
    /\ last_branch = "none"

\* generate_board, lines 66-79: the base row is shuffled and rotated into nine rows.
GenerateRows ==
    /\ pc = "generate"
    /\ gen.stage = "start"
    /\ \E base_row \in FirstOf(BaseRowList, NumBaseRows) :
          gen' = [gen EXCEPT
                     !.stage = "rows",
                     !.rows = RotatedRows([i \in 0..8 |->
                                              IF i = 0 THEN ArrayOf(base_row)
                                              ELSE [j \in 0..8 |-> 0]], 1)]
    /\ UNCHANGED << board_string, cells, previous_moves, least_entropy_result, pc,
                    backtracked, report, entropy_call, removal,
                    before_move, last_branch >>

\* generate_board, lines 83-96: the columns are reordered within their stacks.
GenerateShuffleColumns ==
    /\ pc = "generate"
    /\ gen.stage = "rows"
    /\ \E shuffled_column_order \in ShuffledOrders :
          gen' = [gen EXCEPT
                     !.stage = "columns",
                     !.rows = [r \in 0..8 |->
                                  [i \in 0..8 |-> gen.rows[r][shuffled_column_order[i]]]]]
    /\ UNCHANGED << board_string, cells, previous_moves, least_entropy_result, pc,
                    backtracked, report, entropy_call, removal,
                    before_move, last_branch >>

\* generate_board, lines 99-100: the digits 1..=9 are shuffled.
GenerateShuffleNumbers ==
    /\ pc = "generate"
    /\ gen.stage = "columns"
    /\ \E shuffled_numbers \in FirstOf(RelabelingList, NumRelabelings) :
          gen' = [gen EXCEPT !.stage = "numbers",
                             !.shuffled_numbers = ArrayOf(shuffled_numbers)]
    /\ UNCHANGED << board_string, cells, previous_moves, least_entropy_result, pc,
                    backtracked, report, entropy_call, removal,
                    before_move, last_branch >>

\* generate_board, lines 104-112: the rows are reordered within their bands and
\* written out, each cell as the character of its shuffled number.
GenerateReturn ==
    /\ pc = "generate"
    /\ gen.stage = "numbers"
    /\ \E shuffled_row_order \in ShuffledOrders :
          board_string' =
              [k \in 1..81 |->
                  CharOf(gen.shuffled_numbers[
                             gen.rows[shuffled_row_order[(k - 1) \div 9]][(k - 1) % 9]])]
    /\ gen' = [gen EXCEPT !.stage = "returned"]
    /\ pc' = "generated"
    /\ UNCHANGED << cells, previous_moves, least_entropy_result, backtracked, report,
                    entropy_call, removal,
                    before_move, last_branch >>

NextGen ==
    \/ GenerateRows
    \/ GenerateShuffleColumns
    \/ GenerateShuffleNumbers
    \/ GenerateReturn

SpecGen == InitGen /\ [][NextGen]_vars

\* C4: generate_board returns 81 characters, each a digit 1..9, and on the board
\* they spell every row, column and tile holds each digit 1..9 exactly once.
C4_GeneratedBoardValid ==
    pc = "generated" =>
        /\ Len(board_string) = 81
        /\ \A k \in 1..81 : board_string[k] \in 49..57
        /\ CompleteAndValid(InputBoard)

\* C4 witness: a board was generated with the digits relabeled and another row
\* than the first rotated row written first.
C4_GeneratedShuffled ==
    /\ pc = "generated"
    /\ gen.shuffled_numbers[0] = 5
    /\ board_string[1] # CharOf(gen.shuffled_numbers[gen.rows[0][0]])

-----------------------------------------------------------------------------
(* remove_board_cells *)

\* The pairs (minimum_hints, maximum_hints) remove_board_cells is called with;
\* main calls it with (20, 30).
HintRanges == {<< 20, 30 >>, << 0, 1 >>, << 0, 3 >>, << 78, 81 >>, << 30, 20 >>}

\* Mutant of DrawnHints: the upper end of the range is drawn too.
DrawnHints_Inclusive(minimum_hints, maximum_hints) == minimum_hints..maximum_hints

\* rng.gen_range(minimum_hints..maximum_hints): the half-open range.
DrawnHints(minimum_hints, maximum_hints) == minimum_hints..(maximum_hints - 1)

\* Mutant of DrawChoices: a drawn index is taken even if it was cleared before.
DrawChoices_NoRedraw(string) == {i \in 0..80 : i < DrawWidth}

\* The n lowest indices from i on whose character is not "0".
RECURSIVE LowestDigitIndices(_, _, _)
LowestDigitIndices(string, i, n) ==
    IF i > 80 \/ n = 0
    THEN {}
    ELSE IF string[i + 1] # CharOf(0)
         THEN {i} \cup LowestDigitIndices(string, i + 1, n - 1)
         ELSE LowestDigitIndices(string, i + 1, n)

\* Lines 122-125: rand_index once the while loop has ended: an index whose
\* character is not "0" (here one of the DrawWidth lowest).
DrawChoices(string) == LowestDigitIndices(string, 0, DrawWidth)

\* main, line 23: remove_board_cells is called on a generated board.
InitRemove ==
    /\ board_string = StringOf(Solved)
    /\ cells = [i \in 0..80 |-> 0]
    /\ previous_moves = << >>
    /\ least_entropy_result = NoneLeast
    /\ pc = "remove"
    /\ backtracked = FALSE
    /\ report = "none"
    /\ entropy_call = NoCall
    /\ gen = Idle
    /\ \E range \in HintRanges :
          removal = [stage |-> "called", minimum_hints |-> range[1],
                     maximum_hints |-> range[2], test |-> 0, done |-> 0,
                     cells_removed |-> 0]
    /\ before_move = << >>
    /\ last_branch = "none"

\* remove_board_cells, lines 117-120: the assertion and the number of cells to clear.
RemoveStart ==
    /\ pc = "remove"
    /\ removal.stage = "called"
    /\ IF removal.minimum_hints < removal.maximum_hints
       THEN /\ \E drawn \in DrawnHints(removal.minimum_hints, removal.maximum_hints) :
                  removal' = [removal EXCEPT !.stage = "loop", !.test = 81 - drawn]
            /\ pc' = pc
       ELSE /\ removal' = [removal EXCEPT !.stage = "aborted"]
            /\ pc' = "panic_assert"
    /\ UNCHANGED << board_string, cells, previous_moves, least_entropy_result,
                    backtracked, report, entropy_call, gen,
                    before_move, last_branch >>

\* remove_board_cells, lines 121-127: one iteration of the for loop.
RemoveCell ==
    /\ pc = "remove"
    /\ removal.stage = "loop"
    /\ removal.done < removal.test
    /\ \E rand_index \in DrawChoices(board_string) :
          board_string' = [board_string EXCEPT ![rand_index + 1] = CharOf(0)]
    /\ removal' = [removal EXCEPT !.done = @ + 1]
    /\ UNCHANGED << cells, previous_moves, least_entropy_result, pc, backtracked,
                    report, entropy_call, gen,
                    before_move, last_branch >>

\* remove_board_cells, line 129, and main, line 23: test is returned as cells_removed.
RemoveReturn ==
    /\ pc = "remove"
    /\ removal.stage = "loop"
    /\ removal.done >= removal.test
    /\ removal' = [removal EXCEPT !.stage = "returned", !.cells_removed = removal.test]
    /\ pc' = "removed"
    /\ UNCHANGED << board_string, cells, previous_moves, least_entropy_result,
                    backtracked, report, entropy_call, gen,
                    before_move, last_branch >>

NextRemove ==
    \/ RemoveStart
    \/ RemoveCell
    \/ RemoveReturn

SpecRemove == InitRemove /\ [][NextRemove]_vars

\* The number of hints of the puzzle: the characters that are not "0".
HintCount == Cardinality({k \in 1..81 : board_string[k] # 48})

\* The number of cells cleared: the characters that are "0".
ClearedCount == Cardinality({k \in 1..81 : board_string[k] = 48})

\* C5 as claimed: after remove_board_cells the hint count satisfies
\* 81 - max_hints < hint_count <= 81 - min_hints.
C5_HintCountAsClaimed ==
    (pc = "removed" /\ 0 <= removal.minimum_hints /\ removal.maximum_hints <= 81) =>
        /\ 81 - removal.maximum_hints < HintCount
        /\ HintCount <= 81 - removal.minimum_hints

\* C5 amended: after remove_board_cells on a complete grid with
\* 0 <= min_hints < max_hints <= 81 the hint count satisfies
\* min_hints <= hint_count < max_hints; it is the number of cleared cells that
\* satisfies 81 - max_hints < cleared <= 81 - min_hints.
C5_HintCountInRange ==
    (pc = "removed" /\ 0 <= removal.minimum_hints /\ removal.maximum_hints <= 81) =>
        /\ removal.minimum_hints <= HintCount
        /\ HintCount < removal.maximum_hints
        /\ 81 - removal.maximum_hints < ClearedCount
        /\ ClearedCount <= 81 - removal.minimum_hints

\* C5 witness: called with (20, 30), remove_board_cells has left 29 hints.
C5_TwentyNineHints ==
    /\ pc = "removed"
    /\ removal.minimum_hints = 20
    /\ removal.maximum_hints = 30
    /\ HintCount = 29

\* C6 as claimed: the value returned by remove_board_cells is the number of
\* hints remaining.
C6_ReturnsHintCount ==
    pc = "removed" => removal.cells_removed = HintCount

\* C6 amended: the value returned by remove_board_cells is the number of cells
\* it cleared; the number of hints remaining is 81 minus that value.
C6_ReturnsClearedCount ==
    pc = "removed" =>
        /\ removal.cells_removed = ClearedCount
        /\ 81 - removal.cells_removed = HintCount

\* C6 witness: called with (20, 30), remove_board_cells has returned 61 and left
\* 20 hints.
C6_SixtyOneCleared ==
    /\ pc = "removed"
    /\ removal.minimum_hints = 20
    /\ removal.cells_removed = 61
    /\ HintCount = 20

====
